---- MODULE Spec2Model ----
(***************************************************************************)
(* Model of src/src/crawler.js: queueLinks (the link extractor) and crawl  *)
(* (the level-by-level crawl engine).                                      *)
(*                                                                         *)
(* Strings are sequences of one-character strings, so that the template    *)
(* `http://${domain}` is a concatenation and url.replace(/^https/, 'http') *)
(* is a rewrite of the first five characters.                              *)
(*                                                                         *)
(* One JavaScript job (a callback together with the microtasks it          *)
(* triggers) is one action: a fetch that completes runs the rest of its    *)
(* async arrow function and, when Promise.all settles by it, the rest of   *)
(* crawl up to its next await or its return.                               *)
(***************************************************************************)
EXTENDS Integers, Sequences, FiniteSets, TLC

\* ------------------------------------------------------------------ bounds
\* crawl is called with depth in 0..MaxDepth
MaxDepth == 3

\* ----------------------------------------------------------------- strings
Http  == <<"h", "t", "t", "p">>
Https == <<"h", "t", "t", "p", "s">>
Sep   == <<":", "/", "/">>

StartsWith(s, p) == Len(s) >= Len(p) /\ SubSeq(s, 1, Len(p)) = p

\* the domains crawl is called with: "a.b", "a b" and ""
DomAB    == <<"a", ".", "b">>
DomSpace == <<"a", " ", "b">>
DomEmpty == << >>
Domains  == {DomAB, DomSpace, DomEmpty}

\* the href values that occur on pages
HSeed   == Http \o Sep \o DomAB                      \* "http://a.b"
HSeedS  == Https \o Sep \o DomAB                     \* "https://a.b"
HC      == Http \o Sep \o DomAB \o <<"/", "c">>      \* "http://a.b/c"
HCS     == Https \o Sep \o DomAB \o <<"/", "c">>     \* "https://a.b/c"
HD      == Http \o Sep \o DomAB \o <<"/", "d">>      \* "http://a.b/d"
HRel    == <<"/", "r">>                              \* "/r"
HSS     == Https \o <<"s">> \o Sep \o DomAB          \* "httpss://a.b"

\* ------------------------------------------------------------ page content
\* the entries Object.keys(links) enumerates: an anchor with an href, an
\* anchor without one, and a key whose value has no attribs at all
A(h)      == [attribs |-> TRUE, hasHref |-> TRUE, href |-> h]
NoHref    == [attribs |-> TRUE, hasHref |-> FALSE, href |-> << >>]
NoAttribs == [attribs |-> FALSE, hasHref |-> FALSE, href |-> << >>]

Bodies == { << >>,
            <<A(HC), A(HCS)>>,
            <<A(HSeedS)>>,
            <<A(HRel), NoHref>>,
            <<A(HSS)>>,
            <<A(HC), A(HD)>>,
            <<A(HD), A(HSeed), NoAttribs>>,
            <<A(HCS), A(HRel)>>,
            <<A(HC), A(HD), A(HRel)>> }

\* the body of a page that is served with a non-200 status
ErrorBody == <<A(HC), A(HD)>>

Response(st, b) == [kind |-> "response", status |-> st, data |-> b]
NetworkError    == [kind |-> "error", status |-> 0, data |-> << >>]
NoPage          == [kind |-> "none", status |-> 0, data |-> << >>]

\* the other statuses a page is served with
OtherStatuses == {206, 500}

\* what axios.get(url) can settle with
Outcomes == {Response(200, b) : b \in Bodies}
              \cup {Response(st, ErrorBody) : st \in OtherStatuses}
              \cup {NetworkError}

\* ---------------------------------------------------------------- filterFn
\* the caller's predicate, one of: accept every link, accept absolute links
\* only, accept https links only, accept nothing
Filters == {"all", "absolute", "secureOnly", "none"}

Apply(f, s) ==
    CASE f = "all"        -> TRUE
      [] f = "absolute"   -> StartsWith(s, Http)
      [] f = "secureOnly" -> StartsWith(s, Https \o Sep)
      [] OTHER            -> FALSE

\* ------------------------------------------------------------------- isURL
\* validator's isURL on the strings used here: a protocol, then a host
\* without blanks that has a dot strictly inside it
isURL(s) ==
    /\ StartsWith(s, Http \o Sep)
    /\ LET host == SubSeq(s, Len(Http \o Sep) + 1, Len(s))
       IN  /\ Len(host) >= 3
           /\ \A k \in 1..Len(host) : host[k] # " "
           /\ \E k \in 2..(Len(host) - 1) : host[k] = "."

\* -------------------------------------------------------------- queueLinks
\* replaceHttps that leaves the address as it is
replaceHttps_Keep(s) == s

\* url.replace(/^https/, 'http')
replaceHttps(s) ==
    IF StartsWith(s, Https)
    THEN Http \o SubSeq(s, Len(Https) + 1, Len(s))
    ELSE s

\* links[n].attribs ? links[n].attribs.href : null, as [isString, value]
hrefOf(el) ==
    IF el.attribs /\ el.hasHref
    THEN [isString |-> TRUE, value |-> el.href]
    ELSE [isString |-> FALSE, value |-> << >>]

pageStatusOK(pageContent) == pageContent.status = 200

\* queueLinks with the filter applied after the rewrite of the scheme
queueLinks_FilterAfter(pageContent, f) ==
    IF pageStatusOK(pageContent)
    THEN LET data    == pageContent.data
             mapped  == [n \in 1..Len(data) |-> hrefOf(data[n])]
             strings == SelectSeq(mapped, LAMBDA h : h.isString)
             kept    == SelectSeq(strings,
                                  LAMBDA h : Apply(f, replaceHttps(h.value)))
         IN  {replaceHttps(kept[n].value) : n \in 1..Len(kept)}
    ELSE {}

\* queueLinks without the test of the status
queueLinks_AnyStatus(pageContent, f) ==
    LET data    == pageContent.data
        mapped  == [n \in 1..Len(data) |-> hrefOf(data[n])]
        strings == SelectSeq(mapped, LAMBDA h : h.isString)
        kept    == SelectSeq(strings, LAMBDA h : Apply(f, h.value))
    IN  {replaceHttps(kept[n].value) : n \in 1..Len(kept)}

queueLinks(pageContent, f) ==
    IF pageStatusOK(pageContent)
    THEN LET data    == pageContent.data
             mapped  == [n \in 1..Len(data) |-> hrefOf(data[n])]
             strings == SelectSeq(mapped, LAMBDA h : h.isString)
             kept    == SelectSeq(strings, LAMBDA h : Apply(f, h.value))
         IN  {replaceHttps(kept[n].value) : n \in 1..Len(kept)}
    ELSE {}

\* ------------------------------------------------------------------- crawl
VARIABLES
    pc,         \* where crawl is: "init", "awaitMain", "awaitAll", "done", "failed"
    domain,     \* argument
    depth,      \* argument
    filterFn,   \* argument
    url,        \* const url (line 51)
    mainPage,   \* const mainPage (line 62)
    allLinks,   \* the Visited Set
    links,      \* the Frontier
    i,          \* the loop index
    tasks,      \* the promises handed to Promise.all, by address
    result,     \* the set crawl resolved with (meaningful when pc = "done")
    error,      \* the error crawl rejected with (meaningful when pc = "failed")
    fetched,    \* the axios.get calls made so far, in order, with their level
    web,        \* what each address fetched so far was answered with
    visitedAt,  \* visitedAt[k + 1] is allLinks when the fetches of level k were issued
    outstanding \* the axios.get calls that have not settled yet, with their level

vars == <<pc, domain, depth, filterFn, url, mainPage, allLinks, links, i,
          tasks, result, error, fetched, web, visitedAt, outstanding>>

NoError == [kind |-> "none", url |-> << >>]
NoTasks == [u \in {} |-> 0]

Pending      == [st |-> "pending", value |-> {}]
Fulfilled(v) == [st |-> "fulfilled", value |-> v]
Rejected     == [st |-> "rejected", value |-> {}]

\* `http://${domain}`
SeedUrl(dom) == Http \o Sep \o dom

\* Entry with the test of depth made before the validation of the address
Entry_DepthFirst(u, d) ==
    IF d = 0 THEN "return"
    ELSE IF ~isURL(u) THEN "throw"
    ELSE "fetch"

\* Entry without the shortcut for depth 0
Entry_NoShortcut(u, d) ==
    IF ~isURL(u) THEN "throw"
    ELSE "fetch"

\* the two checks crawl makes before its first fetch
Entry(u, d) ==
    IF ~isURL(u) THEN "throw"
    ELSE IF d = 0 THEN "return"
    ELSE "fetch"

\* the set crawl returns for depth 0
SeedOnly(u) == {u}

\* [...links]: the members of a set in some order
RECURSIVE SetToSeq(_)
SetToSeq(S) ==
    IF S = {} THEN << >>
    ELSE LET x == CHOOSE y \in S : TRUE
         IN  <<x>> \o SetToSeq(S \ {x})

\* FanOutTargets that maps over allLinks instead of links
FanOutTargets_AllLinks(lks, all) == all

\* the addresses a level fetches: [...links].map(async (url) => ...)
FanOutTargets(lks, all) == lks

\* PromiseAll that waits for every promise and overlooks the rejected ones
PromiseAll_OverlookRejected(t) ==
    IF \A u \in DOMAIN t : t[u].st # "pending" THEN "fulfilled"
    ELSE "pending"

\* PromiseAll that is fulfilled as soon as one promise is
PromiseAll_FirstFulfilled(t) ==
    IF \E u \in DOMAIN t : t[u].st = "rejected" THEN "rejected"
    ELSE IF \E u \in DOMAIN t : t[u].st = "fulfilled" THEN "fulfilled"
    ELSE "pending"

\* PromiseAll that waits until every promise has settled before it rejects
PromiseAll_AllSettled(t) ==
    IF \E u \in DOMAIN t : t[u].st = "pending" THEN "pending"
    ELSE IF \E u \in DOMAIN t : t[u].st = "rejected" THEN "rejected"
    ELSE "fulfilled"

\* Promise.all: rejected as soon as one promise is, fulfilled when all are
PromiseAll(t) ==
    IF \E u \in DOMAIN t : t[u].st = "rejected" THEN "rejected"
    ELSE IF \A u \in DOMAIN t : t[u].st = "fulfilled" THEN "fulfilled"
    ELSE "pending"

\* newLinks.reduce(..., new Set([])): each set receives the members of the
\* accumulator and becomes the accumulator
RECURSIVE reduceFrom(_, _, _)
reduceFrom(newLinks, k, urlList) ==
    IF k > Len(newLinks) THEN urlList
    ELSE reduceFrom(newLinks, k + 1, newLinks[k] \cup urlList)

\* reduce that returns the last set without the members of the accumulator
reduce_LastOnly(newLinks) ==
    IF newLinks = << >> THEN {} ELSE newLinks[Len(newLinks)]

reduce(newLinks) == reduceFrom(newLinks, 1, {})

\* difference that keeps the members of allLinks
difference_KeepAll(newLinkSet, all) == newLinkSet

\* newLinkSet.difference(allLinks)
difference(newLinkSet, all) == newLinkSet \ all

\* addAll that replaces allLinks by newLinkSet
addAll_Replace(all, newLinkSet) == newLinkSet

\* for (const url of newLinkSet) allLinks.add(url)
addAll(all, newLinkSet) == all \cup newLinkSet

FetchLog(level, targets) ==
    LET order == SetToSeq(targets)
    IN  [k \in 1..Len(order) |-> [level |-> level, url |-> order[k]]]

Remember(w, u, o) ==
    [x \in DOMAIN w \cup {u} |-> IF x \in DOMAIN w THEN w[x] ELSE o]

Answers(u, o) == o \in Outcomes /\ (u \in DOMAIN web => web[u] = o)

Init ==
    /\ pc = "init"
    /\ domain = << >>
    /\ depth = 0
    /\ filterFn = "all"
    /\ url = << >>
    /\ mainPage = NoPage
    /\ allLinks = {}
    /\ links = {}
    /\ i = 0
    /\ tasks = NoTasks
    /\ result = {}
    /\ error = NoError
    /\ fetched = << >>
    /\ web = NoTasks
    /\ visitedAt = << >>
    /\ outstanding = {}

\* the axios.get calls made by the step
NewFetches == {fetched'[n] : n \in (Len(fetched) + 1)..Len(fetched')}

\* the level whose promises crawl is waiting for
CurrentLevel == fetched[Len(fetched)].level

\* LoopTest with <= in place of <
LoopTest_Inclusive(i2, d) == i2 <= d

\* LoopTest that stops one iteration early
LoopTest_Early(i2, d) == i2 + 1 < d

\* the loop test i < depth
LoopTest(i2, d) == i2 < d

\* return allLinks
Return(i2, lks, all, tsk) ==
    /\ pc' = "done"
    /\ i' = i2
    /\ links' = lks
    /\ allLinks' = all
    /\ tasks' = tsk
    /\ result' = all
    /\ UNCHANGED <<fetched, visitedAt>>

\* crawl from the loop test `i < depth` to its next await or its return.
\* An empty frontier sets i to depth, Promise.all([]) resolves with [] in
\* the same job, the merge of nothing leaves both sets as they are and the
\* loop ends.
Continue(i2, lks, all, tsk) ==
    IF LoopTest(i2, depth)
    THEN LET i3      == IF lks = {} THEN depth ELSE i2
             targets == FanOutTargets(lks, all)
         IN  IF targets # {}
             THEN /\ pc' = "awaitAll"
                  /\ i' = i3
                  /\ links' = lks
                  /\ allLinks' = all
                  /\ tasks' = [u \in targets |-> Pending]
                  /\ fetched' = fetched \o FetchLog(i2, targets)
                  /\ visitedAt' = Append(visitedAt, all)
                  /\ UNCHANGED result
             ELSE LET newLinkSet == reduce(<< >>)
                  IN  Return(i3 + 1, difference(newLinkSet, all),
                             addAll(all, newLinkSet), tsk)
    ELSE Return(i2, lks, all, tsk)

\* lines 49-62: crawl is called and runs to its first await
Crawl(dom, d, f) ==
    /\ pc = "init"
    /\ domain' = dom
    /\ depth' = d
    /\ filterFn' = f
    /\ url' = SeedUrl(dom)
    /\ LET u == SeedUrl(dom)
           e == Entry(u, d)
       IN  CASE e = "throw" ->
                  /\ pc' = "failed"
                  /\ error' = [kind |-> "InvalidUrl", url |-> u]
                  /\ UNCHANGED <<result, fetched, visitedAt>>
             [] e = "return" ->
                  /\ pc' = "done"
                  /\ result' = SeedOnly(u)
                  /\ UNCHANGED <<error, fetched, visitedAt>>
             [] OTHER ->
                  /\ pc' = "awaitMain"
                  /\ fetched' = fetched \o FetchLog(0, {u})
                  /\ visitedAt' = Append(visitedAt, allLinks)
                  /\ UNCHANGED <<result, error>>
    /\ UNCHANGED <<mainPage, allLinks, links, i, tasks, web>>
    /\ outstanding' = NewFetches

\* lines 62-71: the seed fetch resolves
MainResolve(o) ==
    /\ pc = "awaitMain"
    /\ Answers(url, o)
    /\ o.kind = "response"
    /\ mainPage' = o
    /\ web' = Remember(web, url, o)
    /\ LET extracted == queueLinks(o, filterFn)
       IN  Continue(1, extracted, extracted, tasks)
    /\ UNCHANGED <<domain, depth, filterFn, url, error>>
    /\ outstanding' = (outstanding \ {[level |-> 0, url |-> url]}) \cup NewFetches

\* line 62: the seed fetch rejects
MainReject(o) ==
    /\ pc = "awaitMain"
    /\ Answers(url, o)
    /\ o.kind = "error"
    /\ web' = Remember(web, url, o)
    /\ pc' = "failed"
    /\ error' = [kind |-> "FetchError", url |-> url]
    /\ UNCHANGED <<domain, depth, filterFn, url, mainPage, allLinks, links, i,
                   tasks, result, fetched, visitedAt>>
    /\ outstanding' = outstanding \ {[level |-> 0, url |-> url]}

\* PromiseAllValues that holds the value of the promise settled last only
PromiseAllValues_LastSettled(tsk, u) == <<tsk[u].value>>

\* the array Promise.all resolves with: the value of every promise, in the
\* order of [...links], whichever promise u settled last
PromiseAllValues(tsk, u) ==
    LET order == SetToSeq(DOMAIN tsk)
    IN  [k \in 1..Len(order) |-> tsk[order[k]].value]

\* what crawl does when one of the promises of the level settles
Settled(tsk, u) ==
    LET all3 == PromiseAll(tsk)
    IN  CASE pc # "awaitAll" \/ all3 = "pending" ->
                /\ tasks' = tsk
                /\ UNCHANGED <<pc, allLinks, links, i, result, error, fetched,
                               visitedAt>>
          [] pc = "awaitAll" /\ all3 = "rejected" ->
                /\ tasks' = tsk
                /\ pc' = "failed"
                /\ error' = [kind |-> "FetchError", url |-> u]
                /\ UNCHANGED <<allLinks, links, i, result, fetched, visitedAt>>
          [] OTHER ->
                LET newLinks   == PromiseAllValues(tsk, u)
                    newLinkSet == reduce(newLinks)
                IN  /\ Continue(i + 1, difference(newLinkSet, allLinks),
                                addAll(allLinks, newLinkSet), tsk)
                    /\ UNCHANGED error

\* lines 72-73: a fetch of the level resolves and its page is parsed
TaskResolve(u, o) ==
    /\ pc \in {"awaitAll", "failed"}
    /\ u \in DOMAIN tasks
    /\ tasks[u].st = "pending"
    /\ Answers(u, o)
    /\ o.kind = "response"
    /\ web' = Remember(web, u, o)
    /\ Settled([tasks EXCEPT ![u] = Fulfilled(queueLinks(o, filterFn))], u)
    /\ UNCHANGED <<domain, depth, filterFn, url, mainPage>>
    /\ outstanding' = (outstanding \ {[level |-> CurrentLevel, url |-> u]})
                          \cup NewFetches

\* line 72: a fetch of the level rejects
TaskReject(u, o) ==
    /\ pc \in {"awaitAll", "failed"}
    /\ u \in DOMAIN tasks
    /\ tasks[u].st = "pending"
    /\ Answers(u, o)
    /\ o.kind = "error"
    /\ web' = Remember(web, u, o)
    /\ Settled([tasks EXCEPT ![u] = Rejected], u)
    /\ UNCHANGED <<domain, depth, filterFn, url, mainPage>>
    /\ outstanding' = (outstanding \ {[level |-> CurrentLevel, url |-> u]})
                          \cup NewFetches

Next ==
    \/ \E dom \in Domains, d \in 0..MaxDepth, f \in Filters : Crawl(dom, d, f)
    \/ \E o \in Outcomes : MainResolve(o)
    \/ \E o \in Outcomes : MainReject(o)
    \/ \E u \in DOMAIN tasks, o \in Outcomes : TaskResolve(u, o)
    \/ \E u \in DOMAIN tasks, o \in Outcomes : TaskReject(u, o)

Spec == Init /\ [][Next]_vars

\* every address a page can make crawl fetch
Addresses == {replaceHttps(h) : h \in {HSeed, HSeedS, HC, HCS, HD, HRel, HSS}}

\* the seed fetch settles
MainSettle == \E o \in Outcomes : MainResolve(o) \/ MainReject(o)

\* the fetch of address u settles
TaskSettle(u) == \E o \in Outcomes : TaskResolve(u, o) \/ TaskReject(u, o)

\* every axios.get that was issued settles, one way or the other
FairSpec ==
    /\ Spec
    /\ WF_vars(MainSettle)
    /\ \A u \in Addresses : WF_vars(TaskSettle(u))

TypeOK ==
    /\ pc \in {"init", "awaitMain", "awaitAll", "done", "failed"}
    /\ depth \in 0..MaxDepth
    /\ i \in 0..(MaxDepth + 1)

\* ------------------------------------------------------------------ claims
HasSecureScheme(s) == StartsWith(s, Https \o <<":">>)

\* C1: when "http://" + domain is a well-formed address and depth is 0,
\* crawl has returned exactly the set {"http://" + domain} and no fetch has
\* been issued, whatever the filter is.
C1_DepthZeroReturnsSeed ==
    (pc # "init" /\ isURL(Http \o Sep \o domain) /\ depth = 0)
        => (pc = "done" /\ result = {Http \o Sep \o domain} /\ fetched = << >>)

\* a depth-0 call with the filter that rejects every address has returned
C1_Witness ==
    /\ pc = "done"
    /\ depth = 0
    /\ filterFn = "none"
    /\ domain = DomAB
    /\ result = {HSeed}
    /\ fetched = << >>

\* C2: when "http://" + domain is not a well-formed address, crawl has
\* failed with the invalid-address error, at every depth, without issuing a
\* fetch and without returning a set.
C2_InvalidSeedFails ==
    (pc # "init" /\ ~isURL(Http \o Sep \o domain))
        => /\ pc = "failed"
           /\ error = [kind |-> "InvalidUrl", url |-> Http \o Sep \o domain]
           /\ fetched = << >>
           /\ result = {}

\* a depth-0 call with a domain that holds a blank has failed
C2_Witness ==
    /\ pc = "failed"
    /\ domain = DomSpace
    /\ depth = 0
    /\ error.kind = "InvalidUrl"

\* C3 (as claimed): no member of the returned set has the https scheme.
C3_NoSecureMember ==
    pc = "done" => \A m \in result : ~HasSecureScheme(m)

\* the fetches of one level, and the pages they were answered with
TargetsAt(level) ==
    {fetched[n].url : n \in {m \in 1..Len(fetched) : fetched[m].level = level}}

Answered200(u) ==
    u \in DOMAIN web /\ web[u].kind = "response" /\ web[u].status = 200

\* the step in which crawl resumes after a level and merges its results
LevelMerged ==
    /\ pc = "awaitAll"
    /\ pc' \in {"awaitAll", "done"}
    /\ (pc' = "done" \/ Len(fetched') > Len(fetched))

\* the step in which crawl resumes after the seed fetch
SeedMerged == pc = "awaitMain" /\ pc' \in {"awaitAll", "done"}

\* C4: an address that is in allLinks when the fetches of level i are issued
\* is not fetched at level i+1 or later, and no address is fetched twice by
\* the loop, neither within one level nor at two levels.
C4_NoRefetch ==
    /\ \A k \in 1..Len(visitedAt) : \A n \in 1..Len(fetched) :
           fetched[n].level > k - 1 => fetched[n].url \notin visitedAt[k]
    /\ \A m, n \in 1..Len(fetched) :
           (m # n /\ fetched[m].level >= 1 /\ fetched[n].level >= 1)
               => fetched[m].url # fetched[n].url

\* two pages of level 1 both link to an address that level 2 fetches, one of
\* them also links to an address that was already in allLinks, and level 2
\* has been issued
C4_Witness ==
    \E u, v \in TargetsAt(1) :
        /\ u # v
        /\ Answered200(u)
        /\ Answered200(v)
        /\ Len(visitedAt) >= 3
        /\ queueLinks(web[v], filterFn) \cap visitedAt[2] # {}
        /\ queueLinks(web[u], filterFn) \cap queueLinks(web[v], filterFn)
               \cap TargetsAt(2) # {}

\* C5 (as claimed): with depth >= 2, when the seed page links to a page B and
\* page B links back to the seed address, the seed address is not in links
\* once level 1 has been merged.
C5_SeedNotRequeued ==
    ( /\ depth >= 2
      /\ pc \in {"awaitAll", "done"}
      /\ i = 2
      /\ \E B \in queueLinks(mainPage, filterFn) :
            /\ B # url
            /\ Answered200(B)
            /\ url \in queueLinks(web[B], filterFn) )
        => url \notin links

\* C6: when the frontier is empty after the seed page or after a level, crawl
\* returns allLinks as it stands in that same step and issues no fetch, and
\* after the return no fetch is issued.
C6_EarlyTermination ==
    [][ /\ ((SeedMerged \/ LevelMerged) /\ links' = {})
            => (pc' = "done" /\ result' = allLinks' /\ fetched' = fetched)
        /\ pc = "done" => (pc' = "done" /\ fetched' = fetched) ]_vars

\* a call with depth 3 has returned after level 1, the frontier being empty
C6_Witness ==
    /\ pc = "done"
    /\ depth = 3
    /\ i = depth + 1
    /\ links = {}
    /\ TargetsAt(1) # {}
    /\ TargetsAt(2) = {}
    /\ result = allLinks
    /\ result # {}

\* C7: once a fetch has failed with a transport error, crawl has failed with
\* the error of a failed fetch and has returned no set; after the failure no
\* fetch is issued and allLinks is not returned.
C7_FailFast ==
    /\ []( (\E u \in DOMAIN web : web[u].kind = "error")
             => /\ pc = "failed"
                /\ error.kind = "FetchError"
                /\ error.url \in DOMAIN web
                /\ web[error.url].kind = "error"
                /\ result = {} )
    /\ [][ pc = "failed"
             => (pc' = "failed" /\ fetched' = fetched /\ result' = result
                   /\ error' = error) ]_vars

\* a fetch of level 1 has failed while another page of that level had been
\* parsed, links had been collected from the seed page, and levels remained
C7_Witness ==
    /\ pc = "failed"
    /\ error.kind = "FetchError"
    /\ error.url # url
    /\ allLinks # {}
    /\ i + 1 < depth
    /\ \E u \in DOMAIN tasks : tasks[u].st = "fulfilled" /\ tasks[u].value # {}
    /\ result = {}

\* C8: a page whose status is not 200 yields the empty set; crawl fails only
\* by a transport error; and when a level is merged, the links of its pages
\* of status 200 are added to allLinks and, less the former allLinks, make
\* the next frontier.
C8_BadStatusAbsorbed ==
    /\ []( /\ \A u \in DOMAIN tasks :
                (tasks[u].st = "fulfilled" /\ web[u].status # 200)
                    => tasks[u].value = {}
           /\ (pc = "failed" /\ error.kind = "FetchError")
                => web[error.url].kind = "error" )
    /\ [][ /\ LevelMerged =>
                LET good == {u \in DOMAIN tasks : web'[u].status = 200}
                    C    == UNION {queueLinks(web'[u], filterFn) : u \in good}
                IN  /\ allLinks' = allLinks \cup C
                    /\ links' = C \ allLinks
           /\ (SeedMerged /\ mainPage'.status # 200)
                => (pc' = "done" /\ result' = {}) ]_vars

\* at level 1 one page had another status than 200 and another one status 200 with a new
\* link, which is in allLinks and was fetched at level 2
C8_Witness ==
    \E u, v \in TargetsAt(1) :
        /\ u \in DOMAIN web
        /\ web[u].kind = "response"
        /\ web[u].status \in OtherStatuses
        /\ Answered200(v)
        /\ pc \in {"awaitAll", "done"}
        /\ \E x \in queueLinks(web[v], filterFn) :
              x \notin visitedAt[2] /\ x \in allLinks /\ x \in TargetsAt(2)

\* C9 (as claimed): filterFn is true of every member of the returned set.
C9_MembersMatchFilter ==
    pc = "done" => \A m \in result : Apply(filterFn, m)

\* C10: allLinks only grows, and the returned set contains every link
\* extracted from the seed page.
C10_VisitedGrows ==
    /\ [][allLinks \subseteq allLinks']_vars
    /\ []( (pc = "done" /\ depth >= 1)
             => queueLinks(mainPage, filterFn) \subseteq result )

\* two levels have run after the seed page and each of them added an address
C10_Witness ==
    /\ pc = "done"
    /\ Len(visitedAt) >= 3
    /\ visitedAt[2] = queueLinks(mainPage, filterFn)
    /\ visitedAt[2] # {}
    /\ visitedAt[2] # visitedAt[3]
    /\ visitedAt[3] # result

\* C11: under FairSpec, where every issued fetch settles, a call that has
\* issued its seed fetch returns or fails, and no fetch has a level of depth
\* or more: there are at most depth rounds, the seed fetch and depth-1 levels.
C11_Terminates ==
    /\ (pc = "awaitMain") ~> (pc \in {"done", "failed"})
    /\ [](\A n \in 1..Len(fetched) : fetched[n].level < depth)

\* a call with depth 3 has returned after using its three rounds
C11_Witness ==
    /\ pc = "done"
    /\ depth = 3
    /\ TargetsAt(2) # {}
    /\ outstanding = {}

\* C12: a call with depth 1 issues one fetch only, of "http://" + domain,
\* and returns exactly the set extracted from the seed page; when that page
\* holds "http://a.b/c" and "https://a.b/c" and the filter accepts both, the
\* returned set has the one member "http://a.b/c".
C12_DepthOne ==
    /\ depth = 1 => /\ Len(fetched) <= 1
                    /\ \A n \in 1..Len(fetched) :
                          fetched[n] = [level |-> 0, url |-> Http \o Sep \o domain]
    /\ (pc = "done" /\ depth = 1)
          => /\ Len(fetched) = 1
             /\ result = queueLinks(mainPage, filterFn)
             /\ (mainPage = Response(200, <<A(HC), A(HCS)>>) /\ filterFn = "all")
                    => (result = {HC} /\ Cardinality(result) = 1)

\* a depth-1 call whose seed page holds both spellings has returned
C12_Witness ==
    /\ pc = "done"
    /\ depth = 1
    /\ filterFn = "all"
    /\ mainPage = Response(200, <<A(HC), A(HCS)>>)
    /\ result = {HC}
    /\ Len(fetched) = 1

\* the step in which crawl resumes from its wait for a level
Resumes ==
    /\ pc = "awaitAll"
    /\ (pc' \in {"done", "failed"} \/ NewFetches # {})

\* a fetch of the level rejects in the step
RejectsNow ==
    \E u \in DOMAIN tasks :
        /\ tasks[u].st = "pending"
        /\ [level |-> CurrentLevel, url |-> u] \in outstanding \ outstanding'
        /\ web'[u].kind = "error"

\* C13: the fetches that are outstanding at one time are all of one level,
\* and when the fetches of a level are issued no earlier fetch is outstanding.
C13_LevelBarrier ==
    /\ [](\A a, b \in outstanding : a.level = b.level)
    /\ [][NewFetches # {} => outstanding' = NewFetches]_vars

\* one of two fetches of level 1 has resolved, the other one is outstanding,
\* and no fetch of level 2 has been issued although levels remain
C13_Witness ==
    /\ pc = "awaitAll"
    /\ depth = 3
    /\ CurrentLevel = 1
    /\ Cardinality(outstanding) = 1
    /\ \E u \in DOMAIN tasks : tasks[u].st = "fulfilled" /\ tasks[u].value # {}
    /\ TargetsAt(2) = {}

\* C14 (as claimed): whenever crawl resumes from its wait for a level, to
\* merge or to fail, no fetch of that level is outstanding any more.
C14_AllSettledWait ==
    [][Resumes => outstanding' \ NewFetches = {}]_vars

\* C14 (amended): crawl resumes to merge only when no fetch of the level is
\* outstanding any more; a fetch that rejects makes crawl fail in that very
\* step, with the error of that fetch, whatever else is outstanding.
C14_FailFastWait ==
    [][ pc = "awaitAll" =>
          /\ (pc' = "done" \/ NewFetches # {}) => outstanding' \ NewFetches = {}
          /\ RejectsNow => pc' = "failed"
          /\ pc' = "failed" =>
                /\ RejectsNow
                /\ error'.kind = "FetchError"
                /\ web'[error'.url].kind = "error"
                /\ [level |-> CurrentLevel, url |-> error'.url]
                      \in outstanding \ outstanding' ]_vars

\* crawl has failed by a fetch of a level while another fetch of that level
\* is outstanding
C14_Witness ==
    /\ pc = "failed"
    /\ error.kind = "FetchError"
    /\ error.url # url
    /\ outstanding # {}
    /\ \E u \in DOMAIN tasks : tasks[u].st = "pending"

\* C15: while a fetch is outstanding, allLinks and links are what they were
\* when the fetches of its level were issued; and a step that changes one of
\* them is a step of crawl after which no earlier fetch is outstanding.
C15_SetsFrozenWhilePending ==
    /\ [](\A o \in outstanding :
             /\ o.level = 0 => (allLinks = {} /\ links = {})
             /\ o.level >= 1 => /\ allLinks = visitedAt[o.level + 1]
                                /\ links = TargetsAt(o.level))
    /\ [][(allLinks' # allLinks \/ links' # links)
             => /\ pc \in {"awaitMain", "awaitAll"}
                /\ outstanding' \ NewFetches = {}]_vars

\* a page of the level has been parsed into links that are not in allLinks
\* while another fetch of the level is outstanding
C15_Witness ==
    /\ pc = "awaitAll"
    /\ outstanding # {}
    /\ \E u \in DOMAIN tasks :
          /\ tasks[u].st = "fulfilled"
          /\ tasks[u].value \ allLinks # {}

\* the links of the page that address u was answered with
LinksOf(u) ==
    IF u \in DOMAIN web /\ web[u].kind = "response"
    THEN queueLinks(web[u], filterFn)
    ELSE {}

\* C16: when a level is merged, with V = allLinks before the step and C the
\* union of the link sets of the pages of links, the new links is C \ V and
\* the new allLinks is V \cup C; the new links is disjoint from V and
\* contained in the new allLinks.
C16_FrontierAlgebra ==
    [][ LevelMerged =>
          LET V == allLinks
              C == UNION {queueLinks(web'[u], filterFn) : u \in links}
          IN  /\ links' = C \ V
              /\ allLinks' = V \cup C
              /\ links' \cap V = {}
              /\ links' \subseteq allLinks' ]_vars

\* level 1 had two pages with different link sets, some of their links were
\* in allLinks and some were not, and level 2 has been issued with the latter
C16_Witness ==
    /\ pc = "awaitAll"
    /\ CurrentLevel = 2
    /\ \E u, v \in TargetsAt(1) :
          LET C == LinksOf(u) \cup LinksOf(v)
          IN  /\ TargetsAt(1) = {u, v}
              /\ LinksOf(u) \ LinksOf(v) # {}
              /\ LinksOf(v) \ LinksOf(u) # {}
              /\ C \cap visitedAt[2] # {}
              /\ links = C \ visitedAt[2]
              /\ links # {}
              /\ allLinks = visitedAt[2] \cup C

\* the set the claim describes for a page of status 200: the rewritten href
\* of every anchor that has an href which the filter accepts as it is written
HrefsKept(page, f) ==
    {replaceHttps(page.data[n].href) :
        n \in {m \in 1..Len(page.data) :
                  /\ page.data[m].attribs
                  /\ page.data[m].hasHref
                  /\ Apply(f, page.data[m].href)}}

\* C17: every page of status 200 that has been parsed, the seed page or a
\* page of a level, has yielded exactly HrefsKept of it.
C17_ExtractorExact ==
    /\ \A u \in DOMAIN tasks :
          (tasks[u].st = "fulfilled" /\ web[u].status = 200)
              => tasks[u].value = HrefsKept(web[u], filterFn)
    /\ (pc \in {"awaitAll", "done"} /\ mainPage.status = 200)
          => /\ HrefsKept(mainPage, filterFn) \subseteq allLinks
             /\ Len(visitedAt) >= 2 => visitedAt[2] = HrefsKept(mainPage, filterFn)
             /\ (pc = "done" /\ depth = 1) => result = HrefsKept(mainPage, filterFn)

\* with the filter that accepts https addresses only, a page holding
\* "https://a.b/c" and "/r" has yielded {"http://a.b/c"}, whose member the
\* filter rejects, and a page with an anchor without href has yielded nothing
C17_Witness ==
    /\ filterFn = "secureOnly"
    /\ mainPage = Response(200, <<A(HCS), A(HRel)>>)
    /\ HC \in DOMAIN tasks
    /\ tasks[HC].st = "fulfilled"
    /\ web[HC] = Response(200, <<A(HRel), NoHref>>)
    /\ tasks[HC].value = {}
    /\ visitedAt[2] = {HC}
    /\ ~Apply(filterFn, HC)

\* the addresses at the end of a walk of exactly k links from the seed, in
\* the graph whose edges are the links of the pages
RECURSIVE WalkEnds(_)
WalkEnds(k) ==
    IF k <= 1 THEN LinksOf(url)
    ELSE UNION {LinksOf(u) : u \in WalkEnds(k - 1)}

Reachable(d) == UNION {WalkEnds(k) : k \in 1..d}

AllAnswered200 == \A u \in DOMAIN web : web[u].kind = "response" /\ web[u].status = 200

\* C18: when crawl has returned with depth >= 1 and every page had status
\* 200, every address within depth-1 links of the seed has been fetched and
\* the returned set is the set of the addresses at the end of a walk of 1 to
\* depth links from the seed; the seed is in it only as the end of such a walk.
C18_ResultIsReachable ==
    (pc = "done" /\ depth >= 1 /\ AllAnswered200)
        => /\ \A k \in 1..(depth - 1) : WalkEnds(k) \subseteq DOMAIN web
           /\ result = Reachable(depth)
           /\ url \in result <=> \E k \in 1..depth : url \in WalkEnds(k)

\* a call with depth 3 has returned a set that holds the seed, which a page
\* links back to, and an address that only a walk of three links reaches
C18_Witness ==
    /\ pc = "done"
    /\ depth = 3
    /\ AllAnswered200
    /\ url \in result
    /\ WalkEnds(3) \ (WalkEnds(1) \cup WalkEnds(2)) # {}
    /\ result = Reachable(3)

\* the frontier and the visited set of each level, computed level by level
\* from the pages alone
RECURSIVE LevelSets(_)
LevelSets(k) ==
    IF k <= 0 THEN [visited |-> LinksOf(url), frontier |-> LinksOf(url)]
    ELSE LET prev == LevelSets(k - 1)
             C    == UNION {LinksOf(u) : u \in prev.frontier}
         IN  [visited |-> prev.visited \cup C, frontier |-> C \ prev.visited]

\* C19: when crawl has returned with depth >= 1, the returned set and the
\* fetch targets of every level are the ones LevelSets gives for the pages,
\* the filter and the depth: they are a function of these, so that no order
\* in which the fetches of a level settle leads to another outcome.
C19_OrderIndependent ==
    (pc = "done" /\ depth >= 1)
        => /\ result = LevelSets(depth - 1).visited
           /\ \A k \in 1..(depth - 1) : TargetsAt(k) = LevelSets(k - 1).frontier

\* a call has returned after a level of two fetches whose pages have
\* different links, and a further level
C19_Witness ==
    /\ pc = "done"
    /\ depth = 3
    /\ TargetsAt(2) # {}
    /\ \E u, v \in TargetsAt(1) :
          /\ u # v
          /\ LinksOf(u) \ LinksOf(v) # {}
          /\ LinksOf(v) \ LinksOf(u) # {}
    /\ result = LevelSets(2).visited

====
